---------------------------- MODULE Spec2Model ----------------------------
(***************************************************************************)
(* Model of smqtk_detection/interfaces/object_detector.py:                 *)
(*                                                                         *)
(*   ObjectDetector._gen_detection_uuid   the detection identity function  *)
(*   ObjectDetector.detect_objects        validation + assembly generator  *)
(*   ImageMatrixObjectDetector            image-reader backed raw step     *)
(*                                                                         *)
(* Python strings are sequences of code points (naturals), so that the     *)
(* lexicographic order used by sorted() and the separator-free             *)
(* concatenation are computed, not assumed.                                *)
(***************************************************************************)
EXTENDS Integers, Sequences, FiniteSets, TLC

VARIABLES
    \* ---- one use of the detector (specification Spec) ----
    self,       \* the detector instance: [_image_reader |-> reader]
    calls,      \* number of detect_objects calls made so far
    data,       \* the data element passed to the current call
    ret,        \* what the detect_objects call itself handed to the caller
    gen,        \* state of the generator object created by the call
    outcome,    \* result of the consumer's latest next() on the generator
    pulls,      \* number of next() calls the consumer has made
    decoded,    \* what load_as_matrix returned in this invocation
    readerArgs, \* arguments load_as_matrix was called with, in order
    matrixArgs, \* arguments _detect_objects_matrix was called with, in order
    envPairs,   \* the pairs the _detect_objects_matrix result will yield
    dets,       \* what _detect_objects returned: [kind, items]
    pos,        \* number of pairs pulled from dets
    yielded,    \* Detection Records yielded to the consumer, in order
    log,        \* <<pull number, operation>> of every collaborator call
    \* ---- the identity function alone (specification SpecUuid) ----
    u_args,     \* arguments of the first _gen_detection_uuid call
    u_ret,      \* its result
    v_args,     \* arguments of the second call
    v_ret,      \* its result
    v_rel       \* how v_args was obtained from u_args

runVars  == <<self, calls, data, ret, gen, outcome, pulls, decoded, readerArgs,
              matrixArgs, envPairs, dets, pos, yielded, log>>
uuidVars == <<u_args, u_ret, v_args, v_ret, v_rel>>
vars     == <<self, calls, data, ret, gen, outcome, pulls, decoded, readerArgs,
              matrixArgs, envPairs, dets, pos, yielded, log,
              u_args, u_ret, v_args, v_ret, v_rel>>

---------------------------------------------------------------------------
(* Bounds of the model.                                                    *)

MaxDim    == 3   \* bounding boxes have 1..MaxDim dimensions
MaxLabels == 2   \* a label collection holds at most MaxLabels labels
MaxDets   == 2   \* the raw-detection step yields at most MaxDets pairs
MaxCalls  == 2   \* detect_objects is called at most MaxCalls times

---------------------------------------------------------------------------
(* Python values.                                                          *)

None == "None"

\* Code points of the characters used.
Chr_minus == 45
Chr_0 == 48
Chr_a == 97
Chr_b == 98

Range(s) == {s[i] : i \in 1..Len(s)}

\* str(n) for a Python int: plain decimal, '-' for negatives.
RECURSIVE NatStr(_)
NatStr(n) == IF n < 10 THEN <<Chr_0 + n>>
             ELSE NatStr(n \div 10) \o <<Chr_0 + (n % 10)>>

IntStr(n) == IF n < 0 THEN <<Chr_minus>> \o NatStr(0 - n) ELSE NatStr(n)

\* A label is any hashable; modelled are str labels and int labels.
StrLabel(s) == [kind |-> "str", val |-> s]
IntLabel(n) == [kind |-> "int", val |-> <<n>>]

\* str(label), line 67: map(str, labels).
Str(label) == IF label.kind = "int" THEN IntStr(label.val[1]) ELSE label.val

\* Python's < on str: lexicographic by code point, a proper prefix is smaller.
RECURSIVE StrLess(_, _)
StrLess(a, b) ==
    IF b = <<>> THEN FALSE
    ELSE IF a = <<>> THEN TRUE
    ELSE IF a[1] # b[1] THEN a[1] < b[1]
    ELSE StrLess(Tail(a), Tail(b))

\* The strings left in iteration order.
unsorted(s) == s

\* sorted() of a sequence of str (stable; equal strings are all kept).
RECURSIVE Insert(_, _)
Insert(x, s) ==
    IF s = <<>> THEN <<x>>
    ELSE IF StrLess(x, s[1]) THEN <<x>> \o s
    ELSE <<s[1]>> \o Insert(x, Tail(s))

RECURSIVE sorted(_)
sorted(s) == IF s = <<>> THEN <<>>
             ELSE Insert(s[Len(s)], sorted(SubSeq(s, 1, Len(s) - 1)))

\* ''.join(strs)
RECURSIVE join(_)
join(strs) == IF strs = <<>> THEN <<>> ELSE strs[1] \o join(Tail(strs))

\* map(str, labels)
MapStr(labels) == [i \in 1..Len(labels) |-> Str(labels[i])]

\* hashlib.sha1(bytes).hexdigest(), taken as collision-free: an injective
\* constructor over the hashed string.
sha1_hexdigest(hashable) == [digest |-> "sha1", of |-> hashable]

\* The outcome of a call: a returned value (exc = "") or a raised exception.
NoDigest == [digest |-> "", of |-> <<>>]

\* '{}{}{}{}'.format(*args), line 65: four replacement fields. Fewer than
\* four arguments raise IndexError; arguments beyond the fourth are unused.
Format4(args) ==
    IF Len(args) < 4 THEN [exc |-> "IndexError", value |-> <<>>]
    ELSE [exc |-> "",
          value |-> IntStr(args[1]) \o IntStr(args[2]) \o
                    IntStr(args[3]) \o IntStr(args[4])]

\* ObjectDetector._gen_detection_uuid, lines 64-68. bbox.min_vertex and
\* bbox.max_vertex are integer arrays; tolist() gives their components.
_gen_detection_uuid(data_uuid, bbox, labels) ==
    LET fmt == Format4(bbox.min_vertex \o bbox.max_vertex)
    IN  IF fmt.exc # "" THEN [exc |-> fmt.exc, value |-> NoDigest]
        ELSE [exc |-> "",
              value |-> sha1_hexdigest(
                  data_uuid \o fmt.value \o join(sorted(MapStr(labels))))]

---------------------------------------------------------------------------
(* Input domains.                                                          *)

\* Provenance strings: "a", "a1".
ProvValues == {<<Chr_a>>, <<Chr_a, Chr_0 + 1>>}

\* Vertex coordinates: one- and two-digit numbers.
CoordValues == {1, 10}

\* Labels "a", "b", "ab" and the int 1.
LabelValues == {StrLabel(<<Chr_a>>), StrLabel(<<Chr_b>>),
                StrLabel(<<Chr_a, Chr_b>>), IntLabel(1)}

\* AxisAlignedBoundingBox: two vertices of equal dimension, min <= max.
Boxes(dim) ==
    {[min_vertex |-> mn, max_vertex |-> mx] :
        <<mn, mx>> \in {p \in [1..dim -> CoordValues] \X [1..dim -> CoordValues] :
                          \A i \in 1..dim : p[1][i] <= p[2][i]}}

AllBoxes == UNION {Boxes(dim) : dim \in 1..MaxDim}

\* The keys of a dict in iteration order: distinct labels.
LabelSeqs ==
    UNION {{s \in [1..n -> LabelValues] :
               \A i, j \in 1..n : i # j => s[i] # s[j]} : n \in 0..MaxLabels}

UuidArgs == [data_uuid : ProvValues, bbox : AllBoxes, labels : LabelSeqs]

NotCalled == [exc |-> "not called", value |-> NoDigest]

Apply(a) == _gen_detection_uuid(a.data_uuid, a.bbox, a.labels)


---------------------------------------------------------------------------
(* Collaborators, at their interface.                                      *)

Unset == "unset"

\* The ImageReader stored by the detector: the content types it decodes.
ImageReader == [valid_content_types |-> {"image/png"}]

\* ImageMatrixObjectDetector.__init__, lines 234-235.
Detector == [_image_reader |-> ImageReader]

\* ImageReader.is_valid_element: the element's content type is one of the
\* reader's valid content types.
reader_is_valid_element(reader, d) == d.content_type \in reader.valid_content_types

\* ImageMatrixObjectDetector.valid_content_types, line 268.
valid_content_types(self_) == self_._image_reader.valid_content_types

\* A validity check that accepts every element.
is_valid_element_any(self_, d) == TRUE

\* ImageMatrixObjectDetector.is_valid_element, line 285.
is_valid_element(self_, d) == reader_is_valid_element(self_._image_reader, d)

\* ContentTypeValidator.raise_valid_element: ValueError (the InvalidInput
\* condition) for an invalid element, nothing otherwise.
raise_valid_element(self_, d) ==
    IF is_valid_element(self_, d) THEN "" ELSE "ValueError"

\* ClassificationElementFactory.new_classification(type, uuid) and
\* ClassificationElement.set_classification(m).
NoCE == [type_name |-> "", uuid |-> NoDigest, cmap |-> <<>>, populated |-> FALSE]
new_classification(type_name, uuid) ==
    [type_name |-> type_name, uuid |-> uuid, cmap |-> <<>>, populated |-> FALSE]
set_classification(ce, c_map) == [ce EXCEPT !.cmap = c_map, !.populated = TRUE]

\* DetectionElementFactory.new_detection(uuid) and
\* DetectionElement.set_detection(bbox, ce), which returns the element.
NoBox == [min_vertex |-> <<>>, max_vertex |-> <<>>]
NoDE  == [uuid |-> NoDigest, bbox |-> NoBox, ce |-> NoCE, populated |-> FALSE]
new_detection(uuid) == [uuid |-> uuid, bbox |-> NoBox, ce |-> NoCE, populated |-> FALSE]
set_detection(de, bbox, ce) ==
    [de EXCEPT !.bbox = bbox, !.ce = ce, !.populated = TRUE]

---------------------------------------------------------------------------
(* Inputs of a use of the detector.                                        *)

\* Data elements: a content type and a uuid (a checksum str, or an int).
DataElements == [content_type : {"image/png", "text/plain"},
                 uuid : {StrLabel(<<Chr_a>>), IntLabel(1)}]
NoData == [content_type |-> "", uuid |-> StrLabel(<<>>)]

\* What ImageReader.load_as_matrix may return.
Matrices == {"mat1", "mat2"}

\* The box [1..1]-[10..10] of dimension dim.
Cube(dim) == [min_vertex |-> [i \in 1..dim |-> 1], max_vertex |-> [i \in 1..dim |-> 10]]

RunBoxes == {Cube(dim) : dim \in 1..MaxDim}
              \cup {[min_vertex |-> <<1, 1>>, max_vertex |-> <<1, 10>>]}

\* Classification maps, as (label, probability in tenths) items in
\* iteration order: {"a": .9, "b": .1}, {"b": .1, "a": .9}, {"ab": 1.}.
RunMaps == { << <<StrLabel(<<Chr_a>>), 9>>, <<StrLabel(<<Chr_b>>), 1>> >>,
             << <<StrLabel(<<Chr_b>>), 1>>, <<StrLabel(<<Chr_a>>), 9>> >>,
             << <<StrLabel(<<Chr_a, Chr_b>>), 10>> >> }

\* c_map.keys()
keys(c_map) == [i \in 1..Len(c_map) |-> c_map[i][1]]

\* What the iterator returned by _detect_objects_matrix may yield.
PairSeqs == UNION {[1..n -> RunBoxes \X RunMaps] : n \in 0..MaxDets}

---------------------------------------------------------------------------
(* ImageMatrixObjectDetector._detect_objects, lines 314-318.  loaded is    *)
(* what load_as_matrix returns for the element, pairs what the iterator    *)
(* returned by _detect_objects_matrix will yield.  The result names the    *)
(* collaborator calls made, the value returned and the detector after the  *)
(* call.                                                                   *)

\* A variant without the None check of line 315.
_detect_objects_unchecked(self_, d, loaded, pairs) ==
    [readerArgs |-> <<d>>,
     decoded    |-> loaded,
     matrixArgs |-> <<loaded>>,
     result     |-> [kind |-> "iter", items |-> pairs],
     self       |-> self_]

_detect_objects(self_, d, loaded, pairs) ==
    IF loaded = None
    THEN [readerArgs |-> <<d>>,
          decoded    |-> loaded,
          matrixArgs |-> <<>>,
          result     |-> [kind |-> None, items |-> <<>>],
          self       |-> self_]
    ELSE [readerArgs |-> <<d>>,
          decoded    |-> loaded,
          matrixArgs |-> <<loaded>>,
          result     |-> [kind |-> "iter", items |-> pairs],
          self       |-> self_]

---------------------------------------------------------------------------
(* ObjectDetector.detect_objects, lines 105-123.  The body holds a yield,  *)
(* so it is a generator function: the call runs none of the body and hands *)
(* back a generator object; the body runs when the consumer calls next().  *)

\* line 111
type_str == "object detection classification"

\* line 109
de_uuid(d) == Str(d.uuid)

\* A loop that drains the iterator on its first advance.
AdvanceAll(items, p) == Len(items)

\* The for statement of line 115 advances the iterator by one pair: the
\* number of pairs pulled after an advance from p pulled pairs.
Advance(items, p) == p + 1

\* A loop that takes the pairs from the far end.
NextPairReversed(items, p) == items[Len(items) + 1 - p]

\* The pair the p-th advance binds to (bbox, c_map).
NextPair(items, p) == items[p]

\* The collaborator calls of lines 119-122, in order.
AssemblyOps == <<"new_classification", "set_classification",
                 "new_detection", "set_detection">>

\* Lines 117-122 for one pair.
Assemble(uuid_str, pair) ==
    LET bbox     == pair[1]
        c_map    == pair[2]
        det_uuid == _gen_detection_uuid(uuid_str, bbox, keys(c_map))
    IN  IF det_uuid.exc # ""
        THEN [exc |-> det_uuid.exc, ops |-> <<>>, de |-> NoDE]
        ELSE LET ce == set_classification(
                           new_classification(type_str, det_uuid.value), c_map)
                 de == set_detection(new_detection(det_uuid.value), bbox, ce)
             IN  [exc |-> "", ops |-> AssemblyOps, de |-> de]

Tag(pull, ops) == [i \in 1..Len(ops) |-> <<pull, ops[i]>>]

\* Lines 115-123: run the loop from the current position to the next yield,
\* to exhaustion, or to an exception.
Loop(items, pull) ==
    IF pos >= Len(items)
    THEN /\ gen' = "finished"
         /\ outcome' = "StopIteration"
         /\ log' = log \o Tag(pull, <<"next">>)
         /\ UNCHANGED <<pos, yielded>>
    ELSE LET p == Advance(items, pos)
             r == Assemble(de_uuid(data), NextPair(items, p))
         IN  /\ pos' = p
             /\ log' = log \o Tag(pull, <<"next">> \o r.ops)
             /\ IF r.exc # ""
                THEN /\ gen' = "raised"
                     /\ outcome' = r.exc
                     /\ UNCHANGED yielded
                ELSE /\ gen' = "suspended"
                     /\ outcome' = "yield"
                     /\ yielded' = Append(yielded, r.de)

\* Lines 105-114, then the loop: the consumer's first next().
Start(loaded, pairs) ==
    IF raise_valid_element(self, data) # ""
    THEN /\ gen' = "raised"
         /\ outcome' = raise_valid_element(self, data)
         /\ UNCHANGED <<self, decoded, readerArgs, matrixArgs, envPairs, dets,
                        pos, yielded, log>>
    ELSE LET r == _detect_objects(self, data, loaded, pairs)
         IN  /\ self' = r.self
             /\ decoded' = r.decoded
             /\ readerArgs' = r.readerArgs
             /\ matrixArgs' = r.matrixArgs
             /\ envPairs' = IF loaded = None THEN <<>> ELSE pairs
             /\ dets' = r.result
             /\ IF r.result.kind = None
                THEN /\ gen' = "finished"
                     /\ outcome' = "StopIteration"
                     /\ UNCHANGED <<pos, yielded, log>>
                ELSE Loop(r.result.items, pulls + 1)

\* The call of detect_objects: a generator object is created and returned.
DetectObjectsCall ==
    /\ gen = "none"
    /\ calls < MaxCalls
    /\ \E d \in DataElements : data' = d
    /\ calls' = calls + 1
    /\ ret' = "generator"
    /\ gen' = "created"
    /\ UNCHANGED <<self, outcome, pulls, decoded, readerArgs, matrixArgs,
                   envPairs, dets, pos, yielded, log>>
    /\ UNCHANGED uuidVars

\* The consumer's first next() on the generator.
GeneratorStart ==
    /\ gen = "created"
    /\ pulls' = pulls + 1
    /\ \E loaded \in Matrices \cup {None}, pairs \in PairSeqs : Start(loaded, pairs)
    /\ UNCHANGED <<calls, data, ret>>
    /\ UNCHANGED uuidVars

\* A later next() on the generator, resumed after the yield of line 123.
GeneratorResume ==
    /\ gen = "suspended"
    /\ pulls' = pulls + 1
    /\ Loop(dets.items, pulls + 1)
    /\ UNCHANGED <<self, calls, data, ret, decoded, readerArgs, matrixArgs,
                   envPairs, dets>>
    /\ UNCHANGED uuidVars

\* The consumer stops iterating and closes the generator.
GeneratorClose ==
    /\ gen \in {"created", "suspended"}
    /\ gen' = "closed"
    /\ UNCHANGED <<self, calls, data, ret, outcome, pulls, decoded, readerArgs,
                   matrixArgs, envPairs, dets, pos, yielded, log>>
    /\ UNCHANGED uuidVars

RunIdle ==
    /\ data = NoData
    /\ ret = "pending"
    /\ gen = "none"
    /\ outcome = "none"
    /\ pulls = 0
    /\ decoded = Unset
    /\ readerArgs = <<>>
    /\ matrixArgs = <<>>
    /\ envPairs = <<>>
    /\ dets = [kind |-> Unset, items |-> <<>>]
    /\ pos = 0
    /\ yielded = <<>>
    /\ log = <<>>

\* The caller is done with a generator; the detector is ready for the next
\* call.
Release ==
    /\ gen \in {"finished", "raised", "closed"}
    /\ calls < MaxCalls
    /\ data' = NoData
    /\ ret' = "pending"
    /\ gen' = "none"
    /\ outcome' = "none"
    /\ pulls' = 0
    /\ decoded' = Unset
    /\ readerArgs' = <<>>
    /\ matrixArgs' = <<>>
    /\ envPairs' = <<>>
    /\ dets' = [kind |-> Unset, items |-> <<>>]
    /\ pos' = 0
    /\ yielded' = <<>>
    /\ log' = <<>>
    /\ UNCHANGED <<self, calls>>
    /\ UNCHANGED uuidVars

UuidIdle ==
    /\ u_args = [data_uuid |-> <<>>, bbox |-> NoBox, labels |-> <<>>]
    /\ u_ret = NotCalled
    /\ v_args = u_args
    /\ v_ret = NotCalled
    /\ v_rel = "none"

Init ==
    /\ self = Detector
    /\ calls = 0
    /\ RunIdle
    /\ UuidIdle

Next ==
    \/ DetectObjectsCall
    \/ GeneratorStart
    \/ GeneratorResume
    \/ GeneratorClose
    \/ Release

Spec == Init /\ [][Next]_vars

---------------------------------------------------------------------------
(* Claims about detect_objects and the image-matrix raw-detection step.    *)

\* A call is under way (or over) on an element whose content type the
\* detector does not accept.
InvalidCall ==
    /\ gen # "none"
    /\ data.content_type \notin ImageReader.valid_content_types

\* The raw-detection step returned an iterator and the consumer pulled
\* until the generator ended.
ConsumedFully == dets.kind = "iter" /\ gen \in {"finished", "raised"}

Count(op) == Cardinality({i \in 1..Len(log) : log[i][2] = op})

\* The collaborator calls made during the k-th next(), in order.
OpsOf(k) ==
    LET mine == SelectSeq(log, LAMBDA e : e[1] = k)
    IN  [i \in 1..Len(mine) |-> mine[i][2]]

\* C1 (eager validation): once detect_objects has handed control back to the
\* caller for an element of unaccepted content type, what it handed back is
\* the ValueError (InvalidInput), not a sequence.
C1_EagerValidation ==
    InvalidCall => ret = "ValueError"

\* C2 (null propagation): whenever _detect_objects returned None, what the
\* caller received from detect_objects is None, not a sequence.
C2_NullPropagation ==
    dets.kind = None => ret = None

\* C3 (validation gate): for an element of unaccepted content type, however
\* far the consumer goes, the raw-detection step and the factories are never
\* invoked, nothing is yielded, and a pull ends in ValueError and nothing
\* else.
C3_ValidationGate ==
    InvalidCall =>
        /\ dets.kind = Unset /\ decoded = Unset
        /\ readerArgs = <<>> /\ matrixArgs = <<>>
        /\ log = <<>> /\ pos = 0 /\ yielded = <<>>
        /\ gen \in {"created", "raised", "closed"}
        /\ pulls = 0 => outcome = "none"
        /\ pulls > 0 => (pulls = 1 /\ gen = "raised" /\ outcome = "ValueError")

\* C3 witness: the consumer pulled from the generator of an invalid element
\* and got the ValueError.
C3_Witness ==
    InvalidCall /\ pulls = 1 /\ gen = "raised" /\ outcome = "ValueError"

\* The k-th yielded record is fully populated from the k-th pair.
RecordComplete(k) ==
    LET r    == yielded[k]
        pair == dets.items[k]
        id   == _gen_detection_uuid(de_uuid(data), pair[1], keys(pair[2]))
    IN  /\ r.populated /\ r.bbox = pair[1]
        /\ r.ce.populated /\ r.ce.cmap = pair[2]
        /\ r.ce.type_name = type_str
        /\ r.ce.uuid = r.uuid
        /\ id.exc = "" /\ r.uuid = id.value

\* C4 (assembly completeness): when the raw-detection step yields a finite
\* sequence of pairs and the consumer consumes the result fully, exactly one
\* record per pair has been yielded, each populated with the pair's bbox and
\* one classification record holding the pair's map, the fixed type tag and
\* the record's identifier, the identifier being the derived one.
C4_AssemblyCompleteness ==
    ConsumedFully =>
        /\ Len(yielded) = Len(dets.items)
        /\ \A k \in 1..Len(dets.items) : k <= Len(yielded) /\ RecordComplete(k)

\* C5 (order preservation): the k-th record yielded is the one built from
\* the k-th pair; every pair pulled without an exception has its record
\* yielded (none dropped, merged or moved), identical pairs included.
C5_OrderPreservation ==
    /\ \A k \in 1..Len(yielded) :
          /\ k <= Len(dets.items)
          /\ yielded[k].bbox = dets.items[k][1]
          /\ yielded[k].ce.cmap = dets.items[k][2]
    /\ Len(yielded) <= pos
    /\ gen \in {"suspended", "finished", "closed"} => Len(yielded) = pos
    /\ (gen = "finished" /\ dets.kind = "iter") => Len(yielded) = Len(dets.items)

\* C5 witness: two identical pairs, consumed fully: two records with the
\* same identifier were yielded.
C5_Witness ==
    /\ gen = "finished" /\ Len(dets.items) = 2
    /\ dets.items[1] = dets.items[2]
    /\ Len(yielded) = 2
    /\ yielded[1].uuid = yielded[2].uuid

\* C9 (image-matrix raw step): in an invocation of _detect_objects,
\* load_as_matrix is called exactly once, with the given element; when it
\* returns None the step returns None and _detect_objects_matrix is not
\* called; otherwise _detect_objects_matrix is called exactly once, with the
\* matrix decoded in this invocation, and its result is returned unchanged.
\* The detector (its stored image reader) is unchanged and keeps no matrix.
C9_MatrixRawStep ==
    /\ self = Detector
    /\ dets.kind = Unset =>
          (decoded = Unset /\ readerArgs = <<>> /\ matrixArgs = <<>>)
    /\ dets.kind # Unset =>
          /\ readerArgs = <<data>>
          /\ IF decoded = None
             THEN matrixArgs = <<>> /\ dets.kind = None
             ELSE /\ decoded \in Matrices
                  /\ matrixArgs = <<decoded>>
                  /\ dets = [kind |-> "iter", items |-> envPairs]

\* C9 witness: in a second call the reader decoded a matrix, which was
\* passed on, and a non-empty result was returned.
C9_Witness ==
    /\ calls = 2 /\ decoded = "mat2" /\ matrixArgs = <<"mat2">>
    /\ dets.kind = "iter" /\ Len(dets.items) > 0

\* C10 (pull-driven assembly): the pairs pulled and the factory calls made
\* never exceed the consumer's pulls; each pull makes at most one advance of
\* the raw iterator, then new_classification, set_classification,
\* new_detection, set_detection in that order; once the consumer has stopped,
\* exactly its records' worth of work has been done and no more can follow.
C10_PullDriven ==
    /\ pos <= pulls
    /\ Count("next") <= pulls
    /\ Count("new_classification") <= pulls
    /\ Count("new_detection") <= pulls
    /\ \A i \in 1..Len(log) : log[i][1] \in 1..pulls
    /\ \A i, j \in 1..Len(log) : i < j => log[i][1] <= log[j][1]
    /\ \A k \in 1..pulls :
          OpsOf(k) \in {<<>>, <<"next">>, <<"next">> \o AssemblyOps}
    /\ gen = "closed" =>
          /\ pos = Len(yielded)
          /\ Count("new_classification") = Len(yielded)
          /\ Count("new_detection") = Len(yielded)
          /\ ~ENABLED (GeneratorStart \/ GeneratorResume)

\* C10 witness: the raw step has two pairs, the consumer took one record and
\* stopped: one pair was pulled and one record assembled.
C10_Witness ==
    /\ gen = "closed" /\ Len(dets.items) = 2
    /\ pulls = 1 /\ pos = 1 /\ Len(yielded) = 1
    /\ OpsOf(1) = <<"next">> \o AssemblyOps

---------------------------------------------------------------------------
(* Specifications SpecUuid and SpecUuidChange: _gen_detection_uuid applied  *)
(* to bounded inputs, then applied again to inputs related to the first.   *)

UuidInit ==
    /\ self = Detector
    /\ calls = 0
    /\ RunIdle
    /\ u_args \in UuidArgs
    /\ u_ret = NotCalled
    /\ v_args = u_args
    /\ v_ret = NotCalled
    /\ v_rel = "none"

\* The first call.
UuidCall ==
    /\ u_ret = NotCalled
    /\ u_ret' = Apply(u_args)
    /\ UNCHANGED <<u_args, v_args, v_ret, v_rel>>
    /\ UNCHANGED runVars

Second(args, rel) ==
    /\ u_ret # NotCalled
    /\ v_rel = "none"
    /\ v_args' = args
    /\ v_ret' = Apply(args)
    /\ v_rel' = rel
    /\ UNCHANGED <<u_args, u_ret>>
    /\ UNCHANGED runVars

\* A repeated call with the same arguments.
UuidRepeat == Second(u_args, "same")

\* The same labels in another iteration order.
UuidPermute ==
    \E ls \in LabelSeqs :
        /\ ls # u_args.labels
        /\ Range(ls) = Range(u_args.labels)
        /\ Second([u_args EXCEPT !.labels = ls], "permuted")

\* Another provenance string, everything else the same.
UuidChangeProvenance ==
    \E p \in ProvValues :
        /\ p # u_args.data_uuid
        /\ Second([u_args EXCEPT !.data_uuid = p], "provenance")

\* Another box of the same dimension that differs in exactly one vertex
\* coordinate.
DiffCoords(b1, b2) ==
    Cardinality({i \in 1..Len(b1.min_vertex) : b1.min_vertex[i] # b2.min_vertex[i]})
  + Cardinality({i \in 1..Len(b1.max_vertex) : b1.max_vertex[i] # b2.max_vertex[i]})

UuidChangeCoord ==
    \E b \in Boxes(Len(u_args.bbox.min_vertex)) :
        /\ DiffCoords(u_args.bbox, b) = 1
        /\ Second([u_args EXCEPT !.bbox = b], "coordinate")

\* A label collection with another membership, everything else the same.
UuidChangeLabels ==
    \E ls \in LabelSeqs :
        /\ Range(ls) # Range(u_args.labels)
        /\ Second([u_args EXCEPT !.labels = ls], "labels")

\* Calls with equivalent arguments.
UuidNext ==
    \/ UuidCall
    \/ UuidRepeat
    \/ UuidPermute

SpecUuid == UuidInit /\ [][UuidNext]_vars

\* Calls with arguments changed in one place.
UuidChangeNext ==
    \/ UuidCall
    \/ UuidChangeProvenance
    \/ UuidChangeCoord
    \/ UuidChangeLabels

SpecUuidChange == UuidInit /\ [][UuidChangeNext]_vars

---------------------------------------------------------------------------
(* Claims about the identity function.                                     *)

IsId(r) == r.exc = ""

\* C6 (determinism): a second call whose arguments are the same, or differ
\* only in the iteration order of the labels, returns what the first call
\* returned.
C6_Determinism ==
    v_rel \in {"same", "permuted"} => v_ret = u_ret

\* C6 witness: two labels given in the two orders, both calls returned an
\* identifier.
C6_Witness ==
    /\ v_rel = "permuted"
    /\ Len(u_args.labels) = 2
    /\ v_args.labels = <<u_args.labels[2], u_args.labels[1]>>
    /\ IsId(u_ret) /\ IsId(v_ret)

\* C7 (sensitivity): a second call whose arguments differ from the first in
\* the provenance only, in one vertex coordinate only, or in the membership
\* of the label set only, returns a different identifier (the digest being
\* collision-free).
C7_Sensitivity ==
    (v_rel \in {"provenance", "coordinate", "labels"} /\ IsId(u_ret) /\ IsId(v_ret))
        => v_ret # u_ret

\* C8 (totality): every call returns an identifier; none raises.
C8_Totality ==
    u_ret # NotCalled => u_ret.exc = ""

=============================================================================
